---- MODULE Spec2Model ----
(***************************************************************************)
(* Model of src/pages/ProjectFeed.tsx: the ProjectFeed component, its two  *)
(* effects, its asynchronous fetches and the derived list it renders.      *)
(* Text is a sequence of one-character strings, so that toLowerCase and    *)
(* includes are computed, not assumed.                                     *)
(***************************************************************************)
EXTENDS Integers, Sequences, FiniteSets, TLC

VARIABLES projects, loading, searchTerm, filter, currentUser, userCollege,
          showMyCollege, pendingLoads, pendingProfile, toasts,
          db_projects, db_profiles, lastEvent

vars == <<projects, loading, searchTerm, filter, currentUser, userCollege,
          showMyCollege, pendingLoads, pendingProfile, toasts,
          db_projects, db_profiles, lastEvent>>

\* ---------------------------------------------------------------- bounds
MaxPending == 2
MaxProfilePending == 1
MaxToasts == 1
MaxList == 3

\* ------------------------------------------------------------ JS values
NULL == "null"
UNDEFINED == "undefined"

Filters == {"all", "women"}
Users == {"u1", "u2", "u3"}

\* ------------------------------------------------- the document store
\* profiles collection: u1 has a college, u2 has a record without the
\* field, u3 has no record.
ProfileDocs == ("u1" :> [college |-> "X"]) @@ ("u2" :> [displayName |-> "Bo"])

\* projects collection, in the order the store returns it.  The third
\* document's field data itself holds an "id" field.
ProjectDocs ==
  << [id |-> "1", data |-> [title |-> <<"A","p","p">>, description |-> <<>>,
                            skills |-> <<>>, isWomenLed |-> FALSE,
                            college |-> "X"]],
     [id |-> "2", data |-> [title |-> <<"B","o","t">>, description |-> <<"a">>,
                            skills |-> << <<"T","o">> >>, isWomenLed |-> TRUE,
                            college |-> "Y"]],
     [id |-> "3", data |-> [id |-> "9", title |-> <<"o">>,
                            description |-> <<"A","B">>,
                            skills |-> << <<"p">>, <<"a","t">> >>,
                            isWomenLed |-> TRUE, college |-> "X"]],
     [id |-> "4", data |-> [title |-> <<"t">>, description |-> <<"p","O">>,
                            skills |-> <<>>, isWomenLed |-> FALSE]] >>

\* search terms typed by the user
Terms == { <<>>, <<"b","o","t">> }
ViewTerms == Terms \cup { <<"O">>, <<"a","B">>, <<"p","p","p">> }
Colleges == {"X", "Y"}

\* ------------------------------------------------------- pure helpers
\* object spread { ...a, ...b }: the later operand wins
Spread(a, b) ==
  [k \in (DOMAIN a) \cup (DOMAIN b) |-> IF k \in DOMAIN b THEN b[k] ELSE a[k]]

\* { id: doc.id, ...doc.data() }
DocToProject(d) == Spread([id |-> d.id], d.data)

\* property read that may be missing
Get(obj, k) == IF k \in DOMAIN obj THEN obj[k] ELSE UNDEFINED

\* where('isWomenLed', '==', true) or no constraint
Constraints(sel) == IF sel = "women" THEN {"isWomenLed"} ELSE {}

DocSatisfies(d, cs) == \A c \in cs : c \in DOMAIN d.data /\ d.data[c] = TRUE

\* getDocs(q): the documents of the collection that satisfy the constraints
GetDocs(coll, cs) == SelectSeq(coll, LAMBDA d : DocSatisfies(d, cs))

MapSeq(s, Op(_)) == [i \in 1..Len(s) |-> Op(s[i])]

\* querySnapshot.docs.map(...)
ProjectData(coll, sel) == MapSeq(GetDocs(coll, Constraints(sel)), DocToProject)

LowerChar(c) ==
  CASE c = "A" -> "a" [] c = "B" -> "b" [] c = "O" -> "o"
    [] c = "P" -> "p" [] c = "T" -> "t" [] OTHER -> c

toLowerCase(s) == [i \in 1..Len(s) |-> LowerChar(s[i])]

includes(s, t) ==
  \E off \in 0..(Len(s) - Len(t)) : SubSeq(s, off + 1, off + Len(t)) = t

some(s, Pred(_)) == \E i \in 1..Len(s) : Pred(s[i])

\* truthiness of a string-or-missing value
Truthy(v) == v \notin {NULL, UNDEFINED, ""}

\* variant: the search-term comparison without toLowerCase
ProjectMatches_CaseSensitive(project, term, sel, toggle, college) ==
  IF toggle /\ Truthy(college) /\ sel = "women"
    THEN Get(project, "college") = college /\ project.isWomenLed
  ELSE IF toggle /\ Truthy(college)
    THEN Get(project, "college") = college
  ELSE IF sel = "women"
    THEN project.isWomenLed
  ELSE \/ includes(project.title, term)
       \/ includes(project.description, term)
       \/ some(project.skills, LAMBDA skill : includes(skill, term))

\* variant: the college branch tested before the women-led one
ProjectMatches_CollegeFirst(project, term, sel, toggle, college) ==
  IF toggle /\ Truthy(college)
    THEN Get(project, "college") = college
  ELSE IF sel = "women"
    THEN project.isWomenLed
  ELSE \/ includes(toLowerCase(project.title), toLowerCase(term))
       \/ includes(toLowerCase(project.description), toLowerCase(term))
       \/ some(project.skills,
               LAMBDA skill : includes(toLowerCase(skill), toLowerCase(term)))

\* the callback of projects.filter
ProjectMatches(project, term, sel, toggle, college) ==
  IF toggle /\ Truthy(college) /\ sel = "women"
    THEN Get(project, "college") = college /\ project.isWomenLed
  ELSE IF toggle /\ Truthy(college)
    THEN Get(project, "college") = college
  ELSE IF sel = "women"
    THEN project.isWomenLed
  ELSE \/ includes(toLowerCase(project.title), toLowerCase(term))
       \/ includes(toLowerCase(project.description), toLowerCase(term))
       \/ some(project.skills,
               LAMBDA skill : includes(toLowerCase(skill), toLowerCase(term)))

Visible(ps, term, sel, toggle, college) ==
  SelectSeq(ps, LAMBDA p : ProjectMatches(p, term, sel, toggle, college))

filteredProjects == Visible(projects, searchTerm, filter, showMyCollege, userCollege)

\* profileSnap.data().college || null
CollegeOf(data) == IF Truthy(Get(data, "college")) THEN data.college ELSE NULL

BagTotal(b) ==
  LET RECURSIVE Sum(_)
      Sum(S) == IF S = {} THEN 0
                ELSE LET x == CHOOSE y \in S : TRUE IN b[x] + Sum(S \ {x})
  IN Sum(DOMAIN b)

Inc(b, k) == [b EXCEPT ![k] = @ + 1]
Dec(b, k) == [b EXCEPT ![k] = @ - 1]

FailedToast == [message |-> "Failed to load projects", type |-> "error"]

\* ------------------------------------------------------------- state
\* useState initial values followed by the two mount effects
Init ==
  /\ projects = <<>>
  /\ loading = TRUE
  /\ searchTerm = <<>>
  /\ filter = "all"
  /\ currentUser \in Users \cup {NULL}
  /\ userCollege = NULL
  /\ showMyCollege = FALSE
  /\ pendingLoads = [s \in Filters |-> IF s = "all" THEN 1 ELSE 0]
  /\ pendingProfile = [u \in Users |-> IF u = currentUser THEN 1 ELSE 0]
  /\ toasts = <<>>
  /\ db_projects = ProjectDocs
  /\ db_profiles = ProfileDocs
  /\ lastEvent = "mount"

\* --------------------------------------------------- identity resolver
\* variant: the else branch does not clear the college
AuthChange_KeepCollege(u) ==
  /\ u # currentUser
  /\ currentUser' = u
  /\ IF u # NULL
       THEN /\ BagTotal(pendingProfile) < MaxProfilePending
            /\ pendingProfile' = Inc(pendingProfile, u)
       ELSE pendingProfile' = pendingProfile
  /\ userCollege' = userCollege
  /\ lastEvent' = "authChange"
  /\ UNCHANGED <<projects, loading, searchTerm, filter, showMyCollege,
                 pendingLoads, toasts, db_projects, db_profiles>>

\* useEffect[currentUser], run when the auth context delivers a new identity
AuthChange(u) ==
  /\ u # currentUser
  /\ currentUser' = u
  /\ IF u # NULL
       THEN /\ BagTotal(pendingProfile) < MaxProfilePending
            /\ pendingProfile' = Inc(pendingProfile, u)
            /\ userCollege' = userCollege
       ELSE /\ userCollege' = NULL
            /\ pendingProfile' = pendingProfile
  /\ lastEvent' = "authChange"
  /\ UNCHANGED <<projects, loading, searchTerm, filter, showMyCollege,
                 pendingLoads, toasts, db_projects, db_profiles>>

\* fetchCollege after await getDoc resolved, for the uid it was issued with
FetchCollegeResume(u) ==
  /\ pendingProfile[u] > 0
  /\ pendingProfile' = Dec(pendingProfile, u)
  /\ IF u \in DOMAIN db_profiles
       THEN userCollege' = CollegeOf(db_profiles[u])
       ELSE userCollege' = userCollege
  /\ lastEvent' = "fetchCollegeResume"
  /\ UNCHANGED <<projects, loading, searchTerm, filter, currentUser,
                 showMyCollege, pendingLoads, toasts, db_projects, db_profiles>>

\* variant: a catch that resets the college
FetchCollegeReject_Reset(u) ==
  /\ pendingProfile[u] > 0
  /\ pendingProfile' = Dec(pendingProfile, u)
  /\ userCollege' = NULL
  /\ lastEvent' = "fetchCollegeReject"
  /\ UNCHANGED <<projects, loading, searchTerm, filter, currentUser,
                 showMyCollege, pendingLoads, toasts, db_projects,
                 db_profiles>>

\* await getDoc rejected: fetchCollege has no catch, the rejection is dropped
FetchCollegeReject(u) ==
  /\ pendingProfile[u] > 0
  /\ pendingProfile' = Dec(pendingProfile, u)
  /\ lastEvent' = "fetchCollegeReject"
  /\ UNCHANGED <<projects, loading, searchTerm, filter, currentUser,
                 userCollege, showMyCollege, pendingLoads, toasts,
                 db_projects, db_profiles>>

\* ------------------------------------------------------ project loader
\* fetchProjects up to await getDocs(q), with the filter of its closure
FetchProjectsStart(sel) ==
  /\ BagTotal(pendingLoads) < MaxPending
  /\ loading' = TRUE
  /\ pendingLoads' = Inc(pendingLoads, sel)

\* variant: the effect runs fetchProjects with the previous render's filter
SetFilter_StaleClosure(v) ==
  /\ filter' = v
  /\ IF v # filter
       THEN FetchProjectsStart(filter)
       ELSE UNCHANGED <<loading, pendingLoads>>
  /\ lastEvent' = "setFilter"
  /\ UNCHANGED <<projects, searchTerm, currentUser, userCollege,
                 showMyCollege, pendingProfile, toasts, db_projects,
                 db_profiles>>

\* filter button onClick, then useEffect[filter] when the value changed
SetFilter(v) ==
  /\ filter' = v
  /\ IF v # filter
       THEN FetchProjectsStart(v)
       ELSE UNCHANGED <<loading, pendingLoads>>
  /\ lastEvent' = "setFilter"
  /\ UNCHANGED <<projects, searchTerm, currentUser, userCollege,
                 showMyCollege, pendingProfile, toasts, db_projects,
                 db_profiles>>

handleSearch ==
  /\ FetchProjectsStart(filter)
  /\ lastEvent' = "handleSearch"
  /\ UNCHANGED <<projects, searchTerm, filter, currentUser, userCollege,
                 showMyCollege, pendingProfile, toasts, db_projects,
                 db_profiles>>

\* variant: a result is applied only when its filter is still selected
FetchProjectsResume_Fenced(sel) ==
  /\ pendingLoads[sel] > 0
  /\ pendingLoads' = Dec(pendingLoads, sel)
  /\ projects' = IF sel = filter THEN ProjectData(db_projects, sel) ELSE projects
  /\ loading' = FALSE
  /\ lastEvent' = "fetchProjectsResume"
  /\ UNCHANGED <<searchTerm, filter, currentUser, userCollege,
                 showMyCollege, pendingProfile, toasts, db_projects,
                 db_profiles>>

\* fetchProjects after await getDocs resolved: map, setProjects, finally
FetchProjectsResume(sel) ==
  /\ pendingLoads[sel] > 0
  /\ pendingLoads' = Dec(pendingLoads, sel)
  /\ projects' = ProjectData(db_projects, sel)
  /\ loading' = FALSE
  /\ lastEvent' = "fetchProjectsResume"
  /\ UNCHANGED <<searchTerm, filter, currentUser, userCollege,
                 showMyCollege, pendingProfile, toasts, db_projects,
                 db_profiles>>

\* variant: the catch also empties the list
FetchProjectsCatch_ClearList(sel) ==
  /\ pendingLoads[sel] > 0
  /\ Len(toasts) < MaxToasts
  /\ pendingLoads' = Dec(pendingLoads, sel)
  /\ toasts' = Append(toasts, FailedToast)
  /\ projects' = <<>>
  /\ loading' = FALSE
  /\ lastEvent' = "fetchProjectsCatch"
  /\ UNCHANGED <<searchTerm, filter, currentUser, userCollege,
                 showMyCollege, pendingProfile, db_projects, db_profiles>>

\* fetchProjects after await getDocs rejected: catch, finally
FetchProjectsCatch(sel) ==
  /\ pendingLoads[sel] > 0
  /\ Len(toasts) < MaxToasts
  /\ pendingLoads' = Dec(pendingLoads, sel)
  /\ toasts' = Append(toasts, FailedToast)
  /\ loading' = FALSE
  /\ lastEvent' = "fetchProjectsCatch"
  /\ UNCHANGED <<projects, searchTerm, filter, currentUser, userCollege,
                 showMyCollege, pendingProfile, db_projects, db_profiles>>

\* ------------------------------------------------------- view controls
SetSearchTerm(t) ==
  /\ searchTerm' = t
  /\ lastEvent' = "setSearchTerm"
  /\ UNCHANGED <<projects, loading, filter, currentUser, userCollege,
                 showMyCollege, pendingLoads, pendingProfile, toasts,
                 db_projects, db_profiles>>

\* the two buttons of the header; "My College" is disabled without a
\* user or a college
SetShowMyCollege(b) ==
  /\ b => (currentUser # NULL /\ Truthy(userCollege))
  /\ showMyCollege' = b
  /\ lastEvent' = "setShowMyCollege"
  /\ UNCHANGED <<projects, loading, searchTerm, filter, currentUser,
                 userCollege, pendingLoads, pendingProfile, toasts,
                 db_projects, db_profiles>>

Next ==
  \/ \E u \in Users \cup {NULL} : AuthChange(u)
  \/ \E u \in Users : FetchCollegeResume(u)
  \/ \E u \in Users : FetchCollegeReject(u)
  \/ \E v \in Filters : SetFilter(v)
  \/ handleSearch
  \/ \E s \in Filters : FetchProjectsResume(s)
  \/ \E s \in Filters : FetchProjectsCatch(s)
  \/ \E t \in Terms : SetSearchTerm(t)
  \/ \E b \in BOOLEAN : SetShowMyCollege(b)

Spec == Init /\ [][Next]_vars

\* the component when every fetch succeeds
NextNoFailure ==
  \/ \E u \in Users \cup {NULL} : AuthChange(u)
  \/ \E u \in Users : FetchCollegeResume(u)
  \/ \E v \in Filters : SetFilter(v)
  \/ handleSearch
  \/ \E s \in Filters : FetchProjectsResume(s)
  \/ \E t \in Terms : SetSearchTerm(t)
  \/ \E b \in BOOLEAN : SetShowMyCollege(b)

SpecNoFailure == Init /\ [][NextNoFailure]_vars

\* ------------------------------------------- the view filter on its own
\* every project list of bounded length over the entries the loader can
\* produce, with every combination of the other inputs of the filter
ProjectPool == { DocToProject(ProjectDocs[i]) : i \in 1..Len(ProjectDocs) }

ProjectLists == UNION { [1..n -> ProjectPool] : n \in 0..MaxList }

InitView ==
  /\ projects \in ProjectLists
  /\ loading = FALSE
  /\ searchTerm \in ViewTerms
  /\ filter \in Filters
  /\ currentUser \in {NULL, "u1"}
  /\ userCollege \in Colleges \cup {NULL}
  /\ showMyCollege \in BOOLEAN
  /\ pendingLoads = [s \in Filters |-> 0]
  /\ pendingProfile = [u \in Users |-> 0]
  /\ toasts = <<>>
  /\ db_projects = ProjectDocs
  /\ db_profiles = ProfileDocs
  /\ lastEvent = "render"

NextView ==
  \/ \E t \in Terms : SetSearchTerm(t)
  \/ \E b \in BOOLEAN : SetShowMyCollege(b)

SpecView == InitView /\ [][NextView]_vars

\* ------------------------------------------------------------- claims
\* what the store holds for a selection, stated on the documents
WantedDocs(sel) ==
  { i \in 1..Len(db_projects) :
      sel = "women" => db_projects[i].data.isWomenLed = TRUE }

\* the k-th smallest element of a set of indices
Nth(S, k) == CHOOSE i \in S : Cardinality({ j \in S : j < i }) = k - 1

StripId(p) == [k \in (DOMAIN p) \ {"id"} |-> p[k]]

\* C1: userCollege is absent whenever currentUser is absent, and with a
\* user present and no profile fetch in flight it is the college field of
\* that user's profile record, or absent without a record or a field.
ProfileCollege(u) ==
  IF u \in DOMAIN db_profiles /\ "college" \in DOMAIN db_profiles[u]
    THEN db_profiles[u].college ELSE NULL

C1_ResolvedCollege ==
  /\ currentUser = NULL => userCollege = NULL
  /\ (currentUser # NULL /\ BagTotal(pendingProfile) = 0)
       => userCollege = ProfileCollege(currentUser)

\* C2: a load that completes with a fetch error leaves the project list
\* as it was, emits exactly one 'Failed to load projects' error
\* notification, leaves loading false and issues no load call.
C2_LoadFailure ==
  [][lastEvent' = "fetchProjectsCatch" =>
       /\ projects' = projects
       /\ Len(toasts') = Len(toasts) + 1
       /\ SubSeq(toasts', 1, Len(toasts)) = toasts
       /\ toasts'[Len(toasts')].message = "Failed to load projects"
       /\ toasts'[Len(toasts')].type = "error"
       /\ loading' = FALSE
       /\ BagTotal(pendingLoads') = BagTotal(pendingLoads) - 1
       /\ \A s \in Filters : pendingLoads'[s] <= pendingLoads[s]]_vars

C2_Witness ==
  /\ lastEvent = "fetchProjectsCatch"
  /\ projects # <<>>
  /\ Len(toasts) = 1
  /\ ~loading

\* C3: loading is true in every state in which a load call has been
\* issued and has not completed.
C3_LoadingWhilePending == BagTotal(pendingLoads) > 0 => loading = TRUE

\* C4: a load issued with selection s that completes successfully replaces
\* the list by the stored projects of s (all of them, or those with
\* isWomenLed true), in store order, each with its store-assigned id.
C4_LoadResult ==
  [][\A s \in Filters :
       (lastEvent' = "fetchProjectsResume" /\ pendingLoads' = Dec(pendingLoads, s))
       => /\ Len(projects') = Cardinality(WantedDocs(s))
          /\ \A k \in 1..Len(projects') :
               LET d == db_projects[Nth(WantedDocs(s), k)]
               IN /\ projects'[k].id = d.id
                  /\ StripId(projects'[k]) = StripId(d.data)]_vars

\* C5: the displayed list is the order-preserving sublist chosen by the
\* first applicable rule: toggle, college and WOMEN_LED; toggle and
\* college; WOMEN_LED; otherwise a case-insensitive substring match of
\* the search term on title, description or a skill.
MatchCI(text, term) ==
  \E off \in 0..(Len(text) - Len(term)) :
    \A k \in 1..Len(term) : LowerChar(text[off + k]) = LowerChar(term[k])

Rule(p) ==
  LET present == userCollege # NULL
  IN CASE showMyCollege /\ present /\ filter = "women"
            -> Get(p, "college") = userCollege /\ p.isWomenLed = TRUE
       [] showMyCollege /\ present /\ filter # "women"
            -> Get(p, "college") = userCollege
       [] ~(showMyCollege /\ present) /\ filter = "women"
            -> p.isWomenLed = TRUE
       [] OTHER
            -> \/ MatchCI(p.title, searchTerm)
               \/ MatchCI(p.description, searchTerm)
               \/ \E i \in 1..Len(p.skills) : MatchCI(p.skills[i], searchTerm)

Selected == { i \in 1..Len(projects) : Rule(projects[i]) }

C5_VisibleRules ==
  /\ Len(filteredProjects) = Cardinality(Selected)
  /\ \A k \in 1..Len(filteredProjects) :
       filteredProjects[k] = projects[Nth(Selected, k)]
  /\ (searchTerm = <<>> /\ filter = "all" /\ ~(showMyCollege /\ userCollege # NULL))
       => filteredProjects = projects

C5_Witness ==
  /\ lastEvent = "setSearchTerm"
  /\ showMyCollege /\ userCollege = NULL /\ filter = "all"
  /\ searchTerm = <<"b","o","t">>
  /\ Len(projects) = 2
  /\ Len(filteredProjects) = 1
  /\ filteredProjects[1] = projects[2]

\* C6: a change of filter issues exactly one load call with the new
\* selection's constraint; a press of search issues exactly one load call
\* with the current selection's constraint; selecting the selected value,
\* changing the search term or the toggle issues none.
C6_LoadTriggers ==
  [][/\ filter' # filter => pendingLoads' = Inc(pendingLoads, filter')
     /\ lastEvent' = "handleSearch"
          => (filter' = filter /\ pendingLoads' = Inc(pendingLoads, filter))
     /\ (lastEvent' = "setFilter" /\ filter' = filter)
          => pendingLoads' = pendingLoads
     /\ lastEvent' \in {"setSearchTerm", "setShowMyCollege"}
          => pendingLoads' = pendingLoads]_vars

C6_Witness ==
  /\ lastEvent = "setFilter"
  /\ filter = "all"
  /\ pendingLoads["all"] = 1
  /\ pendingLoads["women"] = 1
  /\ searchTerm # <<>>

\* C7: a transition to a present identity issues exactly one profile read
\* keyed by it; a transition to absent issues none and clears userCollege
\* in the same step; no other step issues a profile read; the store is
\* never written.
C7_ProfileReads ==
  [][/\ (currentUser' # currentUser /\ currentUser' # NULL)
          => pendingProfile' = Inc(pendingProfile, currentUser')
     /\ (currentUser' # currentUser /\ currentUser' = NULL)
          => (pendingProfile' = pendingProfile /\ userCollege' = NULL)
     /\ currentUser' = currentUser
          => \A u \in Users : pendingProfile'[u] <= pendingProfile[u]
     /\ db_projects' = db_projects
     /\ db_profiles' = db_profiles]_vars

C7_Witness ==
  /\ lastEvent = "authChange"
  /\ currentUser = NULL
  /\ userCollege = NULL
  /\ showMyCollege

\* C8: a successful load is applied whatever the current filter is, so
\* the result of a load issued for another selection overwrites the list;
\* the witness is the state with no load in flight and the women-led
\* subset listed while the selection is ALL.
C8_NoFencing ==
  [][\A s \in Filters :
       (lastEvent' = "fetchProjectsResume" /\ pendingLoads' = Dec(pendingLoads, s)
          /\ filter # s)
       => /\ filter' = filter
          /\ Len(projects') = Cardinality(WantedDocs(s))
          /\ \A k \in 1..Len(projects') :
               StripId(projects'[k]) = StripId(db_projects[Nth(WantedDocs(s), k)].data)]_vars

C8_Witness ==
  /\ BagTotal(pendingLoads) = 0
  /\ filter = "all"
  /\ Len(projects) = Cardinality(WantedDocs("women"))
  /\ Len(projects) < Len(db_projects)
  /\ \A k \in 1..Len(projects) : projects[k].isWomenLed

\* C9: a failed profile fetch changes neither userCollege nor the project
\* list, the loading flag or the toggle, and emits no notification.
C9_ProfileFailure ==
  [][lastEvent' = "fetchCollegeReject" =>
       /\ userCollege' = userCollege
       /\ projects' = projects
       /\ loading' = loading
       /\ showMyCollege' = showMyCollege
       /\ toasts' = toasts]_vars

C9_Witness ==
  /\ lastEvent = "fetchCollegeReject"
  /\ userCollege = "X"
  /\ currentUser = "u3"

\* C10: while the filter is WOMEN_LED every displayed project is
\* women-led, whatever the list, the search term, the toggle and the
\* college are.
C10_WomenLedOnly ==
  filter = "women" =>
    \A k \in 1..Len(filteredProjects) : filteredProjects[k].isWomenLed = TRUE

C10_Witness ==
  /\ filter = "women"
  /\ Len(projects) = Len(db_projects)
  /\ showMyCollege /\ userCollege = "X"
  /\ searchTerm # <<>>
  /\ Len(filteredProjects) = 1
====
